---------------------------- MODULE Spec2Model ----------------------------
(***************************************************************************)
(* K-means (Lloyd's algorithm) of linfa-k-means, k_means/algorithm.rs:     *)
(* KMeans::fit, KMeans::predict and their helpers.                         *)
(*                                                                         *)
(* Numbers.  The code works on f64.  Here every f64 is an exact fixed-     *)
(* point number: the integer v stands for the real v / Scale.  Scale is    *)
(* chosen so that every division the code performs on the bounded inputs   *)
(* (the incremental mean's  x / n_observations) is exact, hence the model  *)
(* is the code in exact arithmetic; rounding, NaN and infinities are not   *)
(* modelled.  A squared distance is in units of 1 / Scale^2.               *)
(*                                                                         *)
(* Indices.  Cluster indices are 0-based as in the code; rows of a matrix  *)
(* are TLA+ sequences, so row j of `centroids` is centroids[j + 1].        *)
(***************************************************************************)
EXTENDS Integers, Sequences, FiniteSets

\* ------------------------------------------------------------------ bounds
\* most rows of an observation matrix handed to fit
MaxObs == 3
\* observation coordinates are the reals 0, 1, .., MaxVal
MaxVal == 2
\* max_n_iterations ranges over 0 .. MaxIter
MaxIter == 1
\* most rows of a matrix handed to predict
MaxPredictObs == 1
\* most rows of an observation matrix in the runs checked for termination
MaxObsLive == 2

RECURSIVE Factorial(_)
Factorial(n) == IF n <= 1 THEN 1 ELSE n * Factorial(n - 1)

\* fixed-point unit: c * (c - 1) divides Scale for every count c <= MaxObs
Scale == Factorial(MaxObs) * Factorial(MaxObs - 1)

\* the coordinates an input matrix may hold (fixed point)
Values == {v * Scale : v \in 0..MaxVal}

\* the tolerances tried: 0.0 and 1.0 (in units of 1 / Scale^2)
Tolerances == {0, Scale * Scale}

\* the column counts (n_features) tried; every operator below works on rows
\* of any length
FeatureCounts == {1}

RowsOf(f) == [1..f -> Values]

\* matrices of shape (n, f), n <= maxRows
MatricesOf(f, maxRows) == UNION {[1..n -> RowsOf(f)] : n \in 0..maxRows}

\* ------------------------------------------------------------------- state
VARIABLES
    hyperparameters,  \* KMeansHyperParams: n_clusters, tolerance, max_n_iterations
    observations,     \* the (n_observations, n_features) matrix borrowed by fit
    n_features,       \* observations.dim().1
    pc,               \* position of fit: "start", "assign", "done", "failed"
    error,            \* which panic ended fit ("none" while there is none)
    centroids,        \* fit's local `centroids`, then the Model's field
    old_centroids,    \* the centroids the latest assignment step read
    memberships,      \* fit's local `memberships`
    pending,          \* rows par_apply has not yet processed in this step
    n_iterations,     \* fit's local `n_iterations`
    has_converged,    \* fit's local `has_converged`
    predict_status,   \* "none", "ok", "panic": outcome of the latest predict
    predict_input,    \* the matrix the latest predict was called with
    predicted         \* the vector the latest predict returned

vars == <<hyperparameters, observations, n_features, pc, error, centroids,
          old_centroids, memberships, pending, n_iterations, has_converged,
          predict_status, predict_input, predicted>>

\* ----------------------------------------------------------- pure helpers
RECURSIVE SumSq(_, _, _)
SumSq(a, b, i) ==
    IF i > Len(a) THEN 0
    ELSE (a[i] - b[i]) * (a[i] - b[i]) + SumSq(a, b, i + 1)

\* ndarray_stats sq_l2_dist on two rows
SqL2Dist(a, b) == SumSq(a, b, 1)

RECURSIVE SumRows(_, _, _)
SumRows(A, B, r) ==
    IF r > Len(A) THEN 0 ELSE SqL2Dist(A[r], B[r]) + SumRows(A, B, r + 1)

\* ndarray_stats sq_l2_dist on two matrices of the same shape
SqL2DistMatrix(A, B) == SumRows(A, B, 1)

\* Array::zeros(f)
Zeros(f) == [c \in 1..f |-> 0]

\* the outcome of a call that panicked (no index sequence holds -1)
Panic == << -1 >>

\* ------------------------------------------------------- closest_centroid
\* a scan that lets a later centroid win a tie
RECURSIVE ScanCentroidsTieLast(_, _, _, _, _)
ScanCentroidsTieLast(cs, observation, centroid_index, closest_index, minimum_distance) ==
    IF centroid_index >= Len(cs) THEN closest_index
    ELSE LET distance == SqL2Dist(cs[centroid_index + 1], observation)
         IN  IF distance <= minimum_distance
             THEN ScanCentroidsTieLast(cs, observation, centroid_index + 1,
                                       centroid_index, distance)
             ELSE ScanCentroidsTieLast(cs, observation, centroid_index + 1,
                                       closest_index, minimum_distance)

\* a scan that counts the centroids from 1
RECURSIVE ScanCentroidsOneBased(_, _, _, _, _)
ScanCentroidsOneBased(cs, observation, centroid_index, closest_index, minimum_distance) ==
    IF centroid_index >= Len(cs) THEN closest_index
    ELSE LET distance == SqL2Dist(cs[centroid_index + 1], observation)
         IN  IF distance < minimum_distance
             THEN ScanCentroidsOneBased(cs, observation, centroid_index + 1,
                                        centroid_index + 1, distance)
             ELSE ScanCentroidsOneBased(cs, observation, centroid_index + 1,
                                        closest_index, minimum_distance)

\* the for loop over iterator.enumerate(): the iterator was only peeked, so
\* it yields every row, the first included, with its row index
RECURSIVE ScanCentroids(_, _, _, _, _)
ScanCentroids(cs, observation, centroid_index, closest_index, minimum_distance) ==
    IF centroid_index >= Len(cs) THEN closest_index
    ELSE LET distance == SqL2Dist(cs[centroid_index + 1], observation)
         IN  IF distance < minimum_distance
             THEN ScanCentroids(cs, observation, centroid_index + 1,
                                centroid_index, distance)
             ELSE ScanCentroids(cs, observation, centroid_index + 1,
                                closest_index, minimum_distance)

\* peek().expect("There has to be at least one centroid") panics
ClosestCentroidPanics(cs) == Len(cs) = 0

ClosestCentroid(cs, observation) ==
    ScanCentroids(cs, observation, 0, 0, SqL2Dist(cs[1], observation))

\* map_axis over the rows; with no row the closure never runs
ComputeClusterMemberships(cs, obs) ==
    [i \in 1..Len(obs) |-> ClosestCentroid(cs, obs[i])]

\* ------------------------------------------------------ compute_centroids
\* an accumulator that forgets its first observation
IncrementalMeanNewZero(first_observation) ==
    [current_mean |-> Zeros(Len(first_observation)), n_observations |-> 1]

IncrementalMeanNew(first_observation) ==
    [current_mean |-> first_observation, n_observations |-> 1]

IncrementalMeanUpdate(im, new_observation) ==
    LET n == im.n_observations + 1
    IN  [current_mean |->
             [c \in 1..Len(new_observation) |->
                 im.current_mean[c] + (new_observation[c] - im.current_mean[c]) \div n],
         n_observations |-> n]

\* the HashMap after the first i rows were folded in
RECURSIVE FoldObservations(_, _, _)
FoldObservations(obs, cluster_memberships, i) ==
    IF i = 0 THEN << >>
    ELSE LET m == FoldObservations(obs, cluster_memberships, i - 1)
             k == cluster_memberships[i]
         IN  IF k \in DOMAIN m
             THEN [m EXCEPT ![k] = IncrementalMeanUpdate(m[k], obs[i])]
             ELSE [j \in (DOMAIN m) \cup {k} |->
                      IF j = k THEN IncrementalMeanNew(obs[i]) ELSE m[j]]

ComputeCentroidsHashmap(obs, cluster_memberships) ==
    FoldObservations(obs, cluster_memberships, Len(obs))

\* an update step that re-seeds an empty cluster from the first observation
ComputeCentroidsReseed(n_clusters, obs, cluster_memberships) ==
    LET centroids_hashmap == ComputeCentroidsHashmap(obs, cluster_memberships)
    IN  [j \in 1..n_clusters |->
            IF (j - 1) \in DOMAIN centroids_hashmap
            THEN centroids_hashmap[j - 1].current_mean
            ELSE IF Len(obs) > 0 THEN obs[1] ELSE Zeros(n_features)]

\* Array2::zeros((n_clusters, n_features)), then one row assigned per HashMap
\* entry.  (slice_mut would panic on a key >= n_clusters; the memberships fit
\* passes are all below n_clusters, see C5.)
ComputeCentroids(n_clusters, obs, cluster_memberships) ==
    LET centroids_hashmap == ComputeCentroidsHashmap(obs, cluster_memberships)
    IN  [j \in 1..n_clusters |->
            IF (j - 1) \in DOMAIN centroids_hashmap
            THEN centroids_hashmap[j - 1].current_mean
            ELSE Zeros(n_features)]

\* --------------------------------------------------- get_random_centroids
\* sampling with replacement, which never fails on a non-empty range
SampleWithReplacement(length, amount) ==
    IF length = 0 /\ amount > 0 THEN {Panic} ELSE [1..amount -> 1..length]

\* rand::seq::index::sample(rng, length, amount): `amount` distinct indices
\* of 0..length in any order; panics when amount > length
Sample(length, amount) ==
    IF amount > length THEN {Panic}
    ELSE {s \in [1..amount -> 1..length] :
             \A a, b \in 1..amount : a # b => s[a] # s[b]}

\* observations.select(Axis(0), &indices)
Select(obs, indices) == [j \in 1..Len(indices) |-> obs[indices[j]]]

\* ---------------------------------------------------------------- the loop
\* a convergence test that also stops at distance = tolerance
HasConvergedInclusive(distance, iterations) ==
    \/ distance <= hyperparameters.tolerance
    \/ iterations > hyperparameters.max_n_iterations

\* a convergence test without the iteration cap
HasConvergedNoCap(distance, iterations) ==
    distance < hyperparameters.tolerance

HasConverged(distance, iterations) ==
    \/ distance < hyperparameters.tolerance
    \/ iterations > hyperparameters.max_n_iterations

\* a worker that reads the first observation instead of its own
WorkerWriteFirstRow(cluster_memberships, i) ==
    [cluster_memberships EXCEPT ![i] = ClosestCentroid(centroids, observations[1])]

\* the closure of par_apply on row i
WorkerWrite(cluster_memberships, i) ==
    [cluster_memberships EXCEPT ![i] = ClosestCentroid(centroids, observations[i])]

Init ==
    /\ n_features \in FeatureCounts
    /\ observations \in MatricesOf(n_features, MaxObs)
    /\ hyperparameters \in [n_clusters : 0..(MaxObs + 1),
                            tolerance : Tolerances,
                            max_n_iterations : 0..MaxIter]
    /\ pc = "start"
    /\ error = "none"
    /\ centroids = << >>
    /\ old_centroids = << >>
    /\ memberships = << >>
    /\ pending = {}
    /\ n_iterations = 0
    /\ has_converged = FALSE
    /\ predict_status = "none"
    /\ predict_input = << >>
    /\ predicted = << >>

\* fit, lines 80-85: the initial centroids, the counter, the zeroed memberships
FitStart ==
    /\ pc = "start"
    /\ \E indices \in Sample(Len(observations), hyperparameters.n_clusters) :
          IF indices = Panic
          THEN /\ pc' = "failed"
               /\ error' = "InvalidConfiguration"
               /\ UNCHANGED <<centroids, memberships, pending>>
          ELSE /\ centroids' = Select(observations, indices)
               /\ memberships' = [i \in 1..Len(observations) |-> 0]
               /\ pending' = 1..Len(observations)
               /\ pc' = "assign"
               /\ error' = error
    /\ n_iterations' = 0
    /\ UNCHANGED <<hyperparameters, observations, n_features, old_centroids,
                   has_converged, predict_status, predict_input, predicted>>

\* update_cluster_memberships: one parallel worker handles row i
AssignWorker(i) ==
    /\ pc = "assign"
    /\ i \in pending
    /\ IF ClosestCentroidPanics(centroids)
       THEN /\ pc' = "failed"
            /\ error' = "EmptyCentroidSet"
            /\ UNCHANGED <<memberships, pending>>
       ELSE /\ memberships' = WorkerWrite(memberships, i)
            /\ pending' = pending \ {i}
            /\ UNCHANGED <<pc, error>>
    /\ UNCHANGED <<hyperparameters, observations, n_features, centroids,
                   old_centroids, n_iterations, has_converged,
                   predict_status, predict_input, predicted>>

\* fit, lines 89-103, once par_apply has joined: update step, convergence
\* check, replacement of the centroids, counter, break
UpdateAndCheck ==
    /\ pc = "assign"
    /\ pending = {}
    /\ n_iterations <= MaxIter + 2
    /\ LET new_centroids == ComputeCentroids(hyperparameters.n_clusters,
                                             observations, memberships)
           distance == SqL2DistMatrix(centroids, new_centroids)
           converged == HasConverged(distance, n_iterations)
       IN  /\ has_converged' = converged
           /\ old_centroids' = centroids
           /\ centroids' = new_centroids
           /\ n_iterations' = n_iterations + 1
           /\ IF converged
              THEN pc' = "done" /\ pending' = pending
              ELSE pc' = "assign" /\ pending' = 1..Len(observations)
    /\ UNCHANGED <<hyperparameters, observations, n_features, error, memberships,
                   predict_status, predict_input, predicted>>

\* KMeans::predict on the fitted model.  predict borrows the Model immutably,
\* so one call per run reaches every (Model, input) pair
Predict(obs) ==
    /\ pc = "done"
    /\ predict_status = "none"
    /\ predict_input' = obs
    /\ IF Len(obs) > 0 /\ ClosestCentroidPanics(centroids)
       THEN predict_status' = "panic" /\ predicted' = << >>
       ELSE /\ predict_status' = "ok"
            /\ predicted' = ComputeClusterMemberships(centroids, obs)
    /\ UNCHANGED <<hyperparameters, observations, n_features, pc, error,
                   centroids, old_centroids, memberships, pending,
                   n_iterations, has_converged>>

Next ==
    \/ FitStart
    \/ \E i \in 1..MaxObs : AssignWorker(i)
    \/ UpdateAndCheck
    \/ \E obs \in MatricesOf(n_features, MaxPredictObs) : Predict(obs)

Spec == Init /\ [][Next]_vars

\* the runs checked for termination: the smaller observation matrices
FairInit ==
    /\ Init
    /\ Len(observations) <= MaxObsLive
    /\ hyperparameters.n_clusters <= MaxObsLive + 1

\* par_apply joins and fit is straight-line code: every enabled step is taken
FairSpec ==
    /\ FairInit
    /\ [][Next]_vars
    /\ WF_vars(FitStart \/ UpdateAndCheck \/ \E i \in 1..MaxObs : AssignWorker(i))

\* every division of the incremental mean is exact in the fixed-point model:
\* each centroid coordinate is a sum of inputs divided by a count
ExactMeans ==
    pc \in {"assign", "done"} =>
        \A j \in 1..Len(centroids) : \A c \in 1..n_features :
            \E cnt \in 1..MaxObs : (centroids[j][c] * cnt) % Scale = 0

\* ------------------------------------------------------------ vocabulary
NObs == Len(observations)

NClusters == hyperparameters.n_clusters

\* 1 <= n_clusters <= n_observations
ValidConfig == 1 <= NClusters /\ NClusters <= NObs

\* no observation is assigned to cluster j
EmptyCluster(j) == \A i \in 1..NObs : memberships[i] # j

\* r is the lowest row index among the rows of cs nearest to row
IsLowestArgmin(cs, row, r) ==
    /\ r \in 0..(Len(cs) - 1)
    /\ LET dr == SqL2Dist(cs[r + 1], row)
       IN  \A l \in 0..(Len(cs) - 1) :
               LET dl == SqL2Dist(cs[l + 1], row)
               IN  dl >= dr /\ (l < r => dl > dr)

DistinctRows == \A a, b \in 1..NObs : a # b => observations[a] # observations[b]

\* the final membership pairs observations and clusters one to one, and each
\* centroid is the observation assigned to it
EachObservationItsOwnCentroid ==
    /\ \A a, b \in 1..NObs : a # b => memberships[a] # memberships[b]
    /\ \A i \in 1..NObs :
          /\ memberships[i] \in 0..(NClusters - 1)
          /\ centroids[memberships[i] + 1] = observations[i]

\* ------------------------------------------------------------------ claims

\* C1: with max_n_iterations = 0 and 1 <= n_clusters <= n_observations, fit
\* performs exactly one assignment+update cycle before it returns.
C1_ExactlyOneCycle ==
    (pc = "done" /\ ValidConfig /\ hyperparameters.max_n_iterations = 0)
        => n_iterations = 1

\* C2: with n_clusters > n_observations fit fails with InvalidConfiguration
\* before any assignment or update step runs, and no Model is returned.
C2_TooManyClustersFailsEarly ==
    NClusters > NObs =>
        /\ pc \in {"start", "failed"}
        /\ pc = "failed" => error = "InvalidConfiguration"
        /\ n_iterations = 0
        /\ memberships = << >>
        /\ centroids = << >>
        /\ predict_status = "none"

C2_Witness == pc = "failed" /\ NClusters > NObs /\ NObs >= 1

\* C3: with n_clusters = 0 fit fails with InvalidConfiguration before the
\* first assignment step, whatever the observations (zero rows included), and
\* never returns a Model with zero centroids.
C3_ZeroClustersFailsEarly ==
    NClusters = 0 =>
        /\ pc \in {"start", "failed"}
        /\ pc = "failed" => error = "InvalidConfiguration"
        /\ memberships = << >>

\* C3, its last part alone: fit never returns a Model with zero centroids.
C3_NoModelWithoutCentroids == pc = "done" => Len(centroids) >= 1

\* C4: when fit returns, the squared distance between the centroids the final
\* assignment step read and those the final update step wrote is strictly
\* below tolerance, or more than max_n_iterations cycles ran.
C4_ReturnsConvergedOrCapped ==
    pc = "done" =>
        \/ SqL2DistMatrix(old_centroids, centroids) < hyperparameters.tolerance
        \/ n_iterations > hyperparameters.max_n_iterations

\* fit returns at the cap while the centroids still move
C4_Witness ==
    /\ pc = "done"
    /\ NClusters >= 2
    /\ SqL2DistMatrix(old_centroids, centroids) > 0
    /\ SqL2DistMatrix(old_centroids, centroids) >= hyperparameters.tolerance
    /\ n_iterations = hyperparameters.max_n_iterations + 2

\* C5: every element predict returns is an index in [0, n_clusters), and so
\* is every element of the membership vector after each assignment step.
C5_IndicesInRange ==
    /\ predict_status = "ok" =>
          \A i \in 1..Len(predicted) : predicted[i] \in 0..(NClusters - 1)
    /\ (pc \in {"assign", "done"} /\ pending = {}) =>
          \A i \in 1..NObs : memberships[i] \in 0..(NClusters - 1)

C5_Witness ==
    /\ predict_status = "ok"
    /\ NClusters >= 2
    /\ Len(predicted) >= 1
    /\ predicted[1] = NClusters - 1
    /\ \E i \in 1..NObs : memberships[i] = NClusters - 1

\* C6 as stated: with n_clusters = n_observations, for every observation
\* matrix the final membership is one to one and every centroid row equals
\* the observation assigned to it.
C6_Original ==
    (pc = "done" /\ NClusters = NObs) => EachObservationItsOwnCentroid

\* C6 amended: the same, for observation matrices whose rows are pairwise
\* distinct.
C6_DistinctRowsOwnCentroids ==
    (pc = "done" /\ NClusters = NObs /\ DistinctRows)
        => EachObservationItsOwnCentroid

C6_Witness ==
    /\ pc = "done"
    /\ NClusters = NObs
    /\ NObs >= 3
    /\ DistinctRows
    /\ memberships[1] # 0
    /\ EachObservationItsOwnCentroid

\* C7: with at least one centroid, closest_centroid returns the lowest row
\* index among the centroids at minimal squared distance from the
\* observation: for any observation row against every centroid matrix fit
\* holds, for the memberships an assignment step has written, and for every
\* element predict returned.
C7_LowestNearestIndex ==
    /\ (pc \in {"assign", "done"} /\ pending = {} /\ Len(centroids) >= 1) =>
          /\ \A row \in RowsOf(n_features) :
                IsLowestArgmin(centroids, row, ClosestCentroid(centroids, row))
          /\ pc = "assign" =>
                \A i \in 1..NObs :
                    IsLowestArgmin(centroids, observations[i], memberships[i])
    /\ predict_status = "ok" =>
          \A i \in 1..Len(predicted) :
              IsLowestArgmin(centroids, predict_input[i], predicted[i])

\* two centroids past the first tie for nearest, and the lower index is returned
C7_Witness ==
    /\ predict_status = "ok"
    /\ Len(predicted) >= 1
    /\ \E j \in 1..(NClusters - 1) : \E l \in (j + 1)..(NClusters - 1) :
          /\ predicted[1] = j
          /\ SqL2Dist(centroids[j + 1], predict_input[1])
                = SqL2Dist(centroids[l + 1], predict_input[1])

\* C8: after an update step the centroid matrix has exactly n_clusters rows,
\* and the row of every cluster without an assigned observation is all zeros.
C8_EmptyClusterRowIsZero ==
    (n_iterations >= 1 /\ (pc = "done" \/ (pc = "assign" /\ pending = 1..NObs))) =>
        /\ Len(centroids) = NClusters
        /\ \A j \in 0..(NClusters - 1) :
              EmptyCluster(j) => centroids[j + 1] = Zeros(n_features)

\* an empty cluster whose previous centroid was not the origin
C8_Witness ==
    /\ n_iterations >= 1
    /\ pc = "assign"
    /\ pending = 1..NObs
    /\ \E j \in 0..(NClusters - 1) :
          /\ EmptyCluster(j)
          /\ old_centroids[j + 1] # Zeros(n_features)
          /\ centroids[j + 1] = Zeros(n_features)

\* C9: in the parallel assignment step a worker writes only the membership of
\* its own row and leaves the centroids alone; the centroids are replaced only
\* once no worker is left; and when the last worker finishes the memberships
\* are those the sequential computation of predict gives.
C9_ParallelAssignment ==
    [][ /\ (pc = "assign" /\ pending # {} /\ pc' = "assign") =>
              /\ centroids' = centroids
              /\ \E i \in pending :
                    /\ pending' = pending \ {i}
                    /\ \A j \in (1..NObs) \ {i} : memberships'[j] = memberships[j]
        /\ (pc = "assign" /\ centroids' # centroids) => pending = {}
        /\ (pc = "assign" /\ pc' = "assign" /\ pending # {} /\ pending' = {}) =>
              memberships' = ComputeClusterMemberships(centroids', observations)
      ]_vars

\* a second assignment step has finished and changed a membership
C9_Witness ==
    /\ pc = "assign"
    /\ pending = {}
    /\ n_iterations >= 1
    /\ NObs >= 3
    /\ memberships = ComputeClusterMemberships(centroids, observations)
    /\ memberships # ComputeClusterMemberships(old_centroids, observations)

\* C10, the safety part
C10_Bounded ==
    ValidConfig =>
        /\ pc # "failed"
        /\ n_iterations <= hyperparameters.max_n_iterations + 2
        /\ pc = "assign" => n_iterations <= hyperparameters.max_n_iterations + 1
        /\ pc = "done" => n_iterations >= 1

\* C10: with 1 <= n_clusters <= n_observations the loop never fails and
\* always terminates, after at least one and at most max_n_iterations + 2
\* cycles; a cycle's update and check run only once its assignment is over.
C10_FitTerminates ==
    /\ []C10_Bounded
    /\ [][n_iterations' # n_iterations => (pc = "assign" /\ pending = {})]_vars
    /\ ValidConfig ~> (pc = "done")

\* the cap is reached: max_n_iterations + 2 cycles ran
C10_Witness ==
    /\ ValidConfig
    /\ pc = "done"
    /\ n_iterations = hyperparameters.max_n_iterations + 2
    /\ hyperparameters.max_n_iterations >= 1


==========================================================================
